---- MODULE Spec2Model ----
(***************************************************************************)
(* A model of src/modules/repartitioner.py: the Repartitioner class, its   *)
(* destructive partition editor editPartition and the boot-partition       *)
(* growth state machine increaseResinBootTo.                               *)
(*                                                                         *)
(* The disk holds three partitions in the order resin-boot ("boot"),       *)
(* resin-root ("root", root-A) and resin-updt ("updt", root-B).  Geometry  *)
(* is kept in sectors; sizes handed to the controller are in units of      *)
(* SectorsPerUnit sectors.  Every collaborator call (mkdtemp, mount,       *)
(* umount, safeCopy, formatEXT3/formatVFAT, configureBootloader) is one    *)
(* step whose success or failure is chosen nondeterministically.           *)
(***************************************************************************)
EXTENDS Integers, Sequences, FiniteSets, TLC

\* ------------------------------------------------------------------ bounds
\* Sectors in one unit (the scale of parted.sizeToSectors).
SectorsPerUnit == 2
\* Largest target size, in units, handed to increaseResinBootTo.
MaxTarget == 5
\* Initial length of each root partition, in sectors.
RootLen == 6
\* Number of direct editPartition calls made in a row.
MaxCalls == 1

\* ------------------------------------------------------------- vocabulary
Parts == {"boot", "root", "updt"}
Roots == {"root", "updt"}
VARIABLES
    activeRoot,   \* the root device the system is running from
    nextRoot,     \* the root the bootloader is configured to boot next
    geom,         \* the partition table: part -> [start, end] in sectors
    content,      \* part -> what it holds: full (a complete root filesystem),
                  \*   bootdata, empty (freshly formatted), partial (an
                  \*   interrupted copy) or lost (no usable filesystem)
    mounted,      \* part -> mounted at some mountpoint (besides being the root)
    backup,       \* contents of editPartition's backup directory, "none" if absent
    pc,           \* position of the running invocation, "idle" between invocations
    ep,           \* arguments of the running editPartition call
    ret,          \* return value of the last editPartition call
    mp,           \* the transition's temporary mountpoint: none, dir, mounted
    inv,          \* the running (or last) invocation: size, testMode, state, geometry on entry
    result,       \* how the last invocation ended; "none" while it runs
    failedAt,     \* the latest step of this invocation that reported failure
    boots         \* reboots since the last invocation ended (capped at 2)

vars == <<activeRoot, nextRoot, geom, content, mounted, backup, pc, ep, ret, mp,
          inv, result, failedAt, boots>>

\* ---------------------------------------------------------------- helpers
\* Partition.getLength in sectors.
getLength(g) == g.end - g.start + 1

\* parted.sizeToSectors(n, unit, sectorSize) for a whole number of units.
sizeToSectors(n) == n * SectorsPerUnit

\* int(resinBootPart.getLength(unit)): the length in whole units, truncated.
IntLength(g) == getLength(g) \div SectorsPerUnit

\* deltasize = int(size) - int(resinBootPart.getLength(unit))
Deltasize(size, g) == size - IntLength(g["boot"])

\* Mutant of LargeEnough: the size check made strict.
LargeEnough_Strict(size, g) == getLength(g["boot"]) > sizeToSectors(size)

\* resinBootPart.getLength(unit) >= size, compared without rounding.
LargeEnough(size, g) == getLength(g["boot"]) >= sizeToSectors(size)

\* isMounted(path): the running root is always mounted.
isMounted(p) == p = activeRoot \/ mounted[p]

\* Mutant of StateOf: the root lengths are not compared when booted from
\* resin-root, so state E is taken for state A.
StateOf_NoLengthCheck(size, g, cur) ==
    IF getLength(g["boot"]) >= sizeToSectors(size) THEN "D"
    ELSE IF cur = "root" THEN "A"
    ELSE IF cur = "updt"
         THEN (IF getLength(g["root"]) = getLength(g["updt"]) THEN "B" ELSE "C")
    ELSE "U"

\* Mutant of StateOf: the second branch is a plain else, so an unknown root
\* is taken for resin-updt.
StateOf_ElseUpdt(size, g, cur) ==
    IF getLength(g["boot"]) >= sizeToSectors(size) THEN "D"
    ELSE IF cur = "root"
         THEN (IF getLength(g["root"]) = getLength(g["updt"]) THEN "A" ELSE "E")
    ELSE (IF getLength(g["root"]) = getLength(g["updt"]) THEN "B" ELSE "C")

\* The state letter of the diagram in increaseResinBootTo, as the nested
\* conditionals compute it.
StateOf(size, g, cur) ==
    IF LargeEnough(size, g) THEN "D"
    ELSE IF cur = "root"
         THEN (IF getLength(g["root"]) = getLength(g["updt"]) THEN "A" ELSE "E")
    ELSE IF cur = "updt"
         THEN (IF getLength(g["root"]) = getLength(g["updt"]) THEN "B" ELSE "C")
    ELSE "U"

NoEP == [target |-> "boot", dStart |-> 0, dEnd |-> 0, fstype |-> "none",
         format |-> FALSE, safe |-> FALSE, cont |-> "idle"]

\* The last sector of the device the partitions live on (self.device of
\* line 64); a partition cannot be added beyond it.
DeviceEnd == SectorsPerUnit + 2 * RootLen

\* The partition table accepts a geometry that has 0 <= start <= end and
\* overlaps no other partition (disk.addPartition raises otherwise).
ValidGeometry(p, g) ==
    /\ 0 <= g.start
    /\ g.start <= g.end
    /\ g.end <= DeviceEnd
    /\ \A q \in Parts \ {p} : g.end < geom[q].start \/ geom[q].end < g.start

\* What is left readable in a partition whose record was replaced: the
\* filesystem survives only when it still starts where it started and
\* nothing of it was cut off.
AfterCommit(p, g) ==
    IF g.start = geom[p].start /\ g.end >= geom[p].end
    THEN content[p] ELSE "lost"

\* ------------------------------------------------------------------ init
InitGeom(bl) ==
    [p \in Parts |->
        CASE p = "boot" -> [start |-> 0, end |-> bl - 1]
          [] p = "root" -> [start |-> bl, end |-> bl + RootLen - 1]
          [] p = "updt" -> [start |-> bl + RootLen, end |-> bl + 2 * RootLen - 1]]

Init ==
    /\ activeRoot \in {"root", "updt", "other"}
    /\ nextRoot = activeRoot
    /\ \E bl \in {SectorsPerUnit, SectorsPerUnit + 1} : geom = InitGeom(bl)
    /\ content = [p \in Parts |-> IF p = "boot" THEN "bootdata" ELSE "full"]
    /\ mounted = [p \in Parts |-> FALSE]
    /\ backup = "none"
    /\ pc = "idle"
    /\ ep = NoEP
    /\ ret = TRUE
    /\ mp = "none"
    /\ inv = [size |-> 0, tm |-> FALSE, st |-> "-", pre |-> geom,
              clean |-> TRUE]
    /\ result = "none"
    /\ failedAt = ""
    /\ boots = 0

\* ------------------------------------------------- invocation and return
\* return / sys.exit: the invocation ends with result r.
Finish(r) ==
    /\ pc' = "idle"
    /\ result' = r
    /\ mp' = "none"
    /\ ep' = NoEP

\* A call of self.editPartition(...) whose caller continues at cont.
EPCall(target, dStart, dEnd, fstype, safe, cont) ==
    /\ ep' = [target |-> target, dStart |-> dStart, dEnd |-> dEnd,
              fstype |-> fstype, format |-> TRUE, safe |-> safe, cont |-> cont]
    /\ pc' = IF safe THEN "ep_mountpoint" ELSE "ep_umount"

\* editPartition returns v to its caller.
EPReturn(v) ==
    /\ ret' = v
    /\ pc' = ep.cont
    /\ ep' = NoEP

\* The run so far was a normal one: the invocation before this one, if
\* any, ended without any step reporting a failure, and the reboot that
\* transitions A and B ask for (lines 196-198, 246-248) took place.
EndedWell ==
    \/ inv.st = "-"
    \/ /\ result \in {"True", "exit2"}
       /\ failedAt = ""
       /\ inv.st \in {"A", "B"} => boots >= 1

\* increaseResinBootTo(size) on a freshly constructed Repartitioner: the
\* size check and the nested conditionals that pick the state.
Invoke(size, tm) ==
    /\ pc = "idle"
    /\ activeRoot # "none"
    /\ LET st == StateOf(size, geom, activeRoot) IN
       /\ inv' = [size |-> size, tm |-> tm, st |-> st, pre |-> geom,
                  clean |-> inv.clean /\ EndedWell]
       /\ result' = CASE st = "D" -> "True"
                      [] st \in {"E", "U"} -> "False"
                      [] OTHER -> "none"
       /\ pc' = CASE st = "A" -> "A_edit"
                  [] st = "B" -> "B_format"
                  [] st = "C" -> "C_editRoot"
                  [] OTHER -> "idle"
    /\ boots' = 0
    /\ failedAt' = ""
    /\ UNCHANGED <<activeRoot, nextRoot, geom, content, mounted, backup, ep, ret, mp>>

\* deltasize as computed on entry (line 150) and used by the whole transition.
Delta == Deltasize(inv.size, inv.pre)

\* ----------------------------------------------------------- editPartition
\* Lines 36-45: with safeDataThroughTmp, find or create the mountpoint.
EP_Mountpoint ==
    /\ pc = "ep_mountpoint"
    /\ IF isMounted(ep.target)
       THEN /\ pc' = "ep_backupdir"
            /\ UNCHANGED <<ep, ret, failedAt>>
       ELSE \E ok \in BOOLEAN :
            IF ok THEN /\ pc' = "ep_mount"
                       /\ UNCHANGED <<ep, ret, failedAt>>
                  ELSE /\ EPReturn(FALSE)
                       /\ failedAt' = "ep_mountpoint"
    /\ UNCHANGED <<activeRoot, nextRoot, geom, content, mounted, backup, mp,
                   inv, result, boots>>

\* Lines 46-48: mount the target at the new mountpoint.
EP_Mount ==
    /\ pc = "ep_mount"
    /\ \E ok \in BOOLEAN :
       IF ok THEN /\ mounted' = [mounted EXCEPT ![ep.target] = TRUE]
                  /\ pc' = "ep_backupdir"
                  /\ UNCHANGED <<ep, ret, failedAt>>
             ELSE /\ EPReturn(FALSE)
                  /\ failedAt' = "ep_mount"
                  /\ UNCHANGED mounted
    /\ UNCHANGED <<activeRoot, nextRoot, geom, content, backup, mp,
                   inv, result, boots>>

\* Lines 50-55: create the backup directory.
EP_BackupDir ==
    /\ pc = "ep_backupdir"
    /\ \E ok \in BOOLEAN :
       IF ok THEN /\ backup' = "empty"
                  /\ pc' = "ep_backup"
                  /\ UNCHANGED <<ep, ret, failedAt>>
             ELSE /\ EPReturn(FALSE)
                  /\ failedAt' = "ep_backupdir"
                  /\ UNCHANGED backup
    /\ UNCHANGED <<activeRoot, nextRoot, geom, content, mounted, mp,
                   inv, result, boots>>

\* Lines 56-57: copy the files to the backup directory; a failed copy is
\* logged and the call goes on.
EP_Backup ==
    /\ pc = "ep_backup"
    /\ \E ok \in BOOLEAN :
       IF ok THEN /\ backup' = content[ep.target]
                  /\ UNCHANGED failedAt
             ELSE /\ backup' = "partial"
                  /\ failedAt' = "ep_backup"
    /\ pc' = "ep_umount"
    /\ UNCHANGED <<activeRoot, nextRoot, geom, content, mounted, ep, ret, mp,
                   inv, result, boots>>

\* Mutant of EP_Umount: a failed umount is not noticed and the edit goes on.
EP_Umount_IgnoreFailure ==
    /\ pc = "ep_umount"
    /\ IF isMounted(ep.target)
       THEN \E ok \in BOOLEAN :
            /\ mounted' = IF ok THEN [mounted EXCEPT ![ep.target] = FALSE]
                                ELSE mounted
            /\ failedAt' = IF ok THEN failedAt ELSE "ep_umount"
       ELSE UNCHANGED <<mounted, failedAt>>
    /\ pc' = "ep_commit"
    /\ UNCHANGED <<activeRoot, nextRoot, geom, content, backup, ep, ret, mp,
                   inv, result, boots>>

\* Lines 59-62: make sure the partition is not mounted.
EP_Umount ==
    /\ pc = "ep_umount"
    /\ IF isMounted(ep.target)
       THEN \E ok \in BOOLEAN :
            IF ok THEN /\ mounted' = [mounted EXCEPT ![ep.target] = FALSE]
                       /\ pc' = "ep_commit"
                       /\ UNCHANGED <<ep, ret, failedAt>>
                  ELSE /\ EPReturn(FALSE)
                       /\ failedAt' = "ep_umount"
                       /\ UNCHANGED mounted
       ELSE /\ pc' = "ep_commit"
            /\ UNCHANGED <<mounted, ep, ret, failedAt>>
    /\ UNCHANGED <<activeRoot, nextRoot, geom, content, backup, mp,
                   inv, result, boots>>

\* Lines 67-70: the new geometry.
NewGeometry ==
    [start |-> geom[ep.target].start + sizeToSectors(ep.dStart),
     end   |-> geom[ep.target].end + sizeToSectors(ep.dEnd)]

\* Lines 64-77: delete the partition, add it with the new geometry, commit.
\* A geometry the table refuses makes addPartition raise, which nothing
\* catches: the process dies before the commit.
EP_Commit ==
    /\ pc = "ep_commit"
    /\ IF ValidGeometry(ep.target, NewGeometry)
       THEN /\ geom' = [geom EXCEPT ![ep.target] = NewGeometry]
            /\ content' = [content EXCEPT ![ep.target] = AfterCommit(ep.target, NewGeometry)]
            /\ IF ep.format
               THEN pc' = "ep_format" /\ UNCHANGED <<ep, ret>>
               ELSE IF ep.safe
                    THEN pc' = "ep_remount" /\ UNCHANGED <<ep, ret>>
                    ELSE EPReturn(TRUE)
            /\ UNCHANGED <<result, mp, failedAt>>
       ELSE /\ Finish("raise")
            /\ failedAt' = "ep_commit"
            /\ UNCHANGED <<geom, content, ret>>
    /\ UNCHANGED <<activeRoot, nextRoot, mounted, backup, inv, boots>>

\* Lines 79-91: format the new partition.  A failed format leaves either
\* what the commit left or nothing usable.
EP_Format ==
    /\ pc = "ep_format"
    /\ IF ep.fstype \in {"ext3", "ext4", "fat32"}
       THEN \E ok \in BOOLEAN :
            IF ok THEN /\ content' = [content EXCEPT ![ep.target] = "empty"]
                       /\ IF ep.safe
                          THEN pc' = "ep_remount" /\ UNCHANGED <<ep, ret>>
                          ELSE EPReturn(TRUE)
                       /\ UNCHANGED failedAt
                  ELSE /\ \E c \in {content[ep.target], "lost"} :
                             content' = [content EXCEPT ![ep.target] = c]
                       /\ EPReturn(FALSE)
                       /\ failedAt' = "ep_format"
       ELSE /\ EPReturn(FALSE)
            /\ failedAt' = "ep_format"
            /\ UNCHANGED content
    /\ UNCHANGED <<activeRoot, nextRoot, geom, mounted, backup, mp,
                   inv, result, boots>>

\* Lines 93-102: mount the recreated partition at the mountpoint again.
EP_Remount ==
    /\ pc = "ep_remount"
    /\ IF isMounted(ep.target)
       THEN /\ EPReturn(FALSE)
            /\ failedAt' = "ep_remount"
            /\ UNCHANGED mounted
       ELSE \E ok \in BOOLEAN :
            IF ok THEN /\ mounted' = [mounted EXCEPT ![ep.target] = TRUE]
                       /\ pc' = "ep_restore"
                       /\ UNCHANGED <<ep, ret, failedAt>>
                  ELSE /\ EPReturn(FALSE)
                       /\ failedAt' = "ep_remount"
                       /\ UNCHANGED mounted
    /\ UNCHANGED <<activeRoot, nextRoot, geom, content, backup, mp,
                   inv, result, boots>>

\* safeCopy(backupdir, mountpoint) that reported success: a fresh
\* filesystem receives what the backup holds; files copied over the
\* filesystem they were taken from leave it as it is.
RestoreInto(cur, bk) == IF cur = "empty" THEN bk ELSE cur

\* Lines 104-106: copy the backup back; a failed copy is logged and the
\* call goes on.
EP_Restore ==
    /\ pc = "ep_restore"
    /\ \E ok \in BOOLEAN :
       IF ok THEN /\ content' = [content EXCEPT
                                       ![ep.target] = RestoreInto(@, backup)]
                  /\ UNCHANGED failedAt
             ELSE /\ content' = [content EXCEPT ![ep.target] = "partial"]
                  /\ failedAt' = "ep_restore"
    /\ pc' = "ep_cleanup"
    /\ UNCHANGED <<activeRoot, nextRoot, geom, mounted, backup, ep, ret, mp,
                   inv, result, boots>>

\* Variant of EP_Cleanup that returns without removing the directory.
EP_Cleanup_KeepsDir ==
    /\ pc = "ep_cleanup"
    /\ EPReturn(TRUE)
    /\ UNCHANGED <<activeRoot, nextRoot, geom, content, mounted, backup, mp,
                   inv, result, failedAt, boots>>

\* Lines 108-111: remove the backup directory and return True.
EP_Cleanup ==
    /\ pc = "ep_cleanup"
    /\ backup' = "none"
    /\ EPReturn(TRUE)
    /\ UNCHANGED <<activeRoot, nextRoot, geom, content, mounted, mp,
                   inv, result, failedAt, boots>>

\* editPartition called on its own (it is a public method, line 32) on a
\* partition the system is not running from, with arguments of the
\* caller's choice.  The arguments, the table and the contents found on
\* entry are remembered in inv, with the number of calls made so far.
EditPartition(target, dStart, dEnd, fstype, format, safe) ==
    /\ pc = "idle"
    /\ activeRoot # "none"
    /\ target # activeRoot
    /\ inv.st = "edit" => inv.calls < MaxCalls
    /\ ep' = [target |-> target, dStart |-> dStart, dEnd |-> dEnd,
              fstype |-> fstype, format |-> format, safe |-> safe,
              cont |-> "ep_done"]
    /\ pc' = IF safe THEN "ep_mountpoint" ELSE "ep_umount"
    /\ inv' = [size |-> 0, tm |-> FALSE, st |-> "edit", pre |-> geom,
               clean |-> TRUE, was |-> content, args |-> ep',
               calls |-> IF inv.st = "edit" THEN inv.calls + 1 ELSE 1]
    /\ result' = "none"
    /\ failedAt' = ""
    /\ boots' = 0
    /\ UNCHANGED <<activeRoot, nextRoot, geom, content, mounted, backup, ret, mp>>

\* The value editPartition returned reaches that caller.
EditDone ==
    /\ pc = "ep_done"
    /\ Finish(IF ret THEN "True" ELSE "False")
    /\ UNCHANGED <<activeRoot, nextRoot, geom, content, mounted, backup, ret,
                   inv, failedAt, boots>>

\* ------------------------------------------- increaseResinBootTo, A and B
\* `if not self.editPartition(...): return False` at the caller.
CheckEdit(here, next) ==
    /\ pc = here
    /\ IF ret
       THEN pc' = next /\ UNCHANGED <<result, mp, ep>>
       ELSE Finish("False")
    /\ UNCHANGED <<activeRoot, nextRoot, geom, content, mounted, backup, ret,
                   inv, failedAt, boots>>

\* tempfile.mkdtemp for the standby root's mountpoint.
TMkdtemp(here, next) ==
    /\ pc = here
    /\ \E ok \in BOOLEAN :
       IF ok THEN /\ mp' = "dir"
                  /\ pc' = next
                  /\ UNCHANGED <<result, ep, failedAt>>
             ELSE /\ Finish("False")
                  /\ failedAt' = here
    /\ UNCHANGED <<activeRoot, nextRoot, geom, content, mounted, backup, ret,
                   inv, boots>>

\* mount(part, mountpoint): a failure is logged and the transition goes on.
TMount(here, part, next) ==
    /\ pc = here
    /\ \E ok \in BOOLEAN :
       IF ok THEN /\ mounted' = [mounted EXCEPT ![part] = TRUE]
                  /\ mp' = "mounted"
                  /\ UNCHANGED failedAt
             ELSE /\ failedAt' = here
                  /\ UNCHANGED <<mounted, mp>>
    /\ pc' = next
    /\ UNCHANGED <<activeRoot, nextRoot, geom, content, backup, ep, ret,
                   inv, result, boots>>

\* safeCopy(live root, mountpoint): the files land in the partition only
\* when it is mounted there.  After a failed copy the mountpoint is
\* unmounted, whatever umount answers, and the transition returns False.
TCopy(here, part, next) ==
    /\ pc = here
    /\ \E ok \in BOOLEAN :
       IF ok THEN /\ content' = IF mp = "mounted"
                                 THEN [content EXCEPT ![part] = content[activeRoot]]
                                 ELSE content
                  /\ pc' = next
                  /\ UNCHANGED <<mounted, result, mp, ep, failedAt>>
             ELSE /\ content' = IF mp = "mounted"
                                 THEN [content EXCEPT ![part] = "partial"]
                                 ELSE content
                  /\ \E uok \in BOOLEAN :
                        mounted' = IF uok /\ mp = "mounted"
                                   THEN [mounted EXCEPT ![part] = FALSE]
                                   ELSE mounted
                  /\ Finish("False")
                  /\ failedAt' = here
    /\ UNCHANGED <<activeRoot, nextRoot, geom, backup, ret, inv, boots>>

\* umount(mountpoint)
TUmount(here, part, next) ==
    /\ pc = here
    /\ \E ok \in BOOLEAN :
       IF ok THEN /\ mounted' = IF mp = "mounted"
                                 THEN [mounted EXCEPT ![part] = FALSE]
                                 ELSE mounted
                  /\ pc' = next
                  /\ UNCHANGED <<result, mp, ep, failedAt>>
             ELSE /\ Finish("False")
                  /\ failedAt' = here
                  /\ UNCHANGED mounted
    /\ UNCHANGED <<activeRoot, nextRoot, geom, content, backup, ret,
                   inv, boots>>

\* configureBootloader(current root, part, conf)
TBootloader(here, part, next) ==
    /\ pc = here
    /\ \E ok \in BOOLEAN :
       IF ok THEN /\ nextRoot' = part
                  /\ pc' = next
                  /\ UNCHANGED <<result, mp, ep, failedAt>>
             ELSE /\ Finish("False")
                  /\ failedAt' = here
                  /\ UNCHANGED nextRoot
    /\ UNCHANGED <<activeRoot, geom, content, mounted, backup, ret,
                   inv, boots>>

\* Mutant of TExit: the exit does not look at testMode.
TExit_AlwaysExit(here) ==
    /\ pc = here
    /\ Finish("exit2")
    /\ UNCHANGED <<activeRoot, nextRoot, geom, content, mounted, backup, ret,
                   inv, failedAt, boots>>

\* `if not self.testMode: sys.exit(2)`, else fall through to `return True`.
TExit(here) ==
    /\ pc = here
    /\ IF inv.tm THEN Finish("True") ELSE Finish("exit2")
    /\ UNCHANGED <<activeRoot, nextRoot, geom, content, mounted, backup, ret,
                   inv, failedAt, boots>>

\* Mutant of A_EditUpdt: resin-updt is shrunk by the whole of deltasize.
A_EditUpdt_WholeDelta ==
    /\ pc = "A_edit"
    /\ EPCall("updt", Delta, 0, "ext4", FALSE, "A_edited")
    /\ UNCHANGED <<activeRoot, nextRoot, geom, content, mounted, backup, ret, mp,
                   inv, result, failedAt, boots>>

\* State A, lines 166-198.
A_EditUpdt ==
    /\ pc = "A_edit"
    /\ EPCall("updt", Delta \div 2, 0, "ext4", FALSE, "A_edited")
    /\ UNCHANGED <<activeRoot, nextRoot, geom, content, mounted, backup, ret, mp,
                   inv, result, failedAt, boots>>
A_CheckEdit == CheckEdit("A_edited", "A_mkdtemp")
A_Mkdtemp == TMkdtemp("A_mkdtemp", "A_mount")
A_Mount == TMount("A_mount", "updt", "A_copy")
A_Copy == TCopy("A_copy", "updt", "A_umount")
A_Umount == TUmount("A_umount", "updt", "A_bootloader")
\* Variant of A_Bootloader that configures the running root.
A_Bootloader_Root == TBootloader("A_bootloader", "root", "A_exit")
A_Bootloader == TBootloader("A_bootloader", "updt", "A_exit")
A_Exit == TExit("A_exit")

\* State B, lines 216-248.
B_Format ==
    /\ pc = "B_format"
    /\ \E ok \in BOOLEAN :
       IF ok THEN /\ content' = [content EXCEPT !["root"] = "empty"]
                  /\ pc' = "B_mkdtemp"
                  /\ UNCHANGED <<result, mp, ep, failedAt>>
             ELSE /\ \E c \in {content["root"], "lost"} :
                        content' = [content EXCEPT !["root"] = c]
                  /\ Finish("False")
                  /\ failedAt' = "B_format"
    /\ UNCHANGED <<activeRoot, nextRoot, geom, mounted, backup, ret,
                   inv, boots>>
B_Mkdtemp == TMkdtemp("B_mkdtemp", "B_mount")
B_Mount == TMount("B_mount", "root", "B_copy")
B_Copy == TCopy("B_copy", "root", "B_umount")
B_Umount == TUmount("B_umount", "root", "B_bootloader")
\* Variant of B_Bootloader that configures the running root.
B_Bootloader_Updt == TBootloader("B_bootloader", "updt", "B_exit")
B_Bootloader == TBootloader("B_bootloader", "root", "B_exit")
B_Exit == TExit("B_exit")

\* State C, lines 255-265.
C_EditRoot ==
    /\ pc = "C_editRoot"
    /\ EPCall("root", Delta, Delta \div 2, "ext4", FALSE, "C_rootEdited")
    /\ UNCHANGED <<activeRoot, nextRoot, geom, content, mounted, backup, ret, mp,
                   inv, result, failedAt, boots>>
C_CheckRoot == CheckEdit("C_rootEdited", "C_editBoot")
\* Mutant of C_EditBoot: resin-boot is grown by half of deltasize.
C_EditBoot_HalfDelta ==
    /\ pc = "C_editBoot"
    /\ EPCall("boot", 0, Delta \div 2, "fat32", TRUE, "C_bootEdited")
    /\ UNCHANGED <<activeRoot, nextRoot, geom, content, mounted, backup, ret, mp,
                   inv, result, failedAt, boots>>
C_EditBoot ==
    /\ pc = "C_editBoot"
    /\ EPCall("boot", 0, Delta, "fat32", TRUE, "C_bootEdited")
    /\ UNCHANGED <<activeRoot, nextRoot, geom, content, mounted, backup, ret, mp,
                   inv, result, failedAt, boots>>
C_CheckBoot ==
    /\ pc = "C_bootEdited"
    /\ IF ret THEN Finish("True") ELSE Finish("False")
    /\ UNCHANGED <<activeRoot, nextRoot, geom, content, mounted, backup, ret,
                   inv, failedAt, boots>>

\* ------------------------------------------------------------ environment
\* The host reboots between two invocations: the bootloader boots the root
\* it is configured for, which comes up only if it holds a complete root
\* filesystem; mounts made by earlier invocations are gone, and /tmp may or
\* may not survive.
Reboot ==
    /\ pc = "idle"
    /\ activeRoot # "none"
    /\ activeRoot' = IF nextRoot \in Roots /\ content[nextRoot] # "full"
                     THEN "none" ELSE nextRoot
    /\ mounted' = [p \in Parts |-> FALSE]
    /\ backup' \in {backup, "none"}
    /\ boots' = IF boots < 2 THEN boots + 1 ELSE boots
    /\ UNCHANGED <<nextRoot, geom, content, pc, ep, ret, mp, inv, result,
                   failedAt>>

Next ==
    \/ \E size \in 1..MaxTarget, tm \in BOOLEAN : Invoke(size, tm)
    \/ EP_Mountpoint \/ EP_Mount \/ EP_BackupDir \/ EP_Backup \/ EP_Umount
    \/ EP_Commit \/ EP_Format \/ EP_Remount \/ EP_Restore \/ EP_Cleanup
    \/ A_EditUpdt \/ A_CheckEdit \/ A_Mkdtemp \/ A_Mount \/ A_Copy \/ A_Umount
    \/ A_Bootloader \/ A_Exit
    \/ B_Format \/ B_Mkdtemp \/ B_Mount \/ B_Copy \/ B_Umount \/ B_Bootloader
    \/ B_Exit
    \/ C_EditRoot \/ C_CheckRoot \/ C_EditBoot \/ C_CheckBoot
    \/ Reboot

Spec == Init /\ [][Next]_vars

\* editPartition exercised directly: every combination of target, deltas
\* (in MiB, as the method takes them), filesystem type and flags, call
\* after call.
Fstypes == {"ext4", "fat32", "ext2"}

NextEdit ==
    \/ \E target \in Parts, dStart \in -1..1, dEnd \in -1..1,
          fstype \in Fstypes, format \in BOOLEAN, safe \in BOOLEAN :
          EditPartition(target, dStart, dEnd, fstype, format, safe)
    \/ EP_Mountpoint \/ EP_Mount \/ EP_BackupDir \/ EP_Backup \/ EP_Umount
    \/ EP_Commit \/ EP_Format \/ EP_Remount \/ EP_Restore \/ EP_Cleanup
    \/ EditDone

SpecEdit == Init /\ [][NextEdit]_vars

\* ================================================================ claims
\* A step that starts an invocation (the only step from idle that is not a
\* reboot), and the on-disk, mount and bootloader state it may change.
Invoked == pc = "idle" /\ boots' = 0 /\ vars' # vars
Machine == <<activeRoot, nextRoot, geom, content, mounted, backup>>
\* The invocation has ended and nothing has happened since.
Ended == pc = "idle" /\ result # "none" /\ boots = 0
BootLength(g) == g["boot"].end - g["boot"].start + 1
RootLength(g) == g["root"].end - g["root"].start + 1
UpdtLength(g) == g["updt"].end - g["updt"].start + 1
Unit == SectorsPerUnit
\* delta in units as the controller computes it, from the geometry on entry.
EntryDelta == inv.size - (BootLength(inv.pre) \div Unit)

\* C1 (as claimed): in every reachable state the root partition the
\* bootloader is configured to boot next holds a complete root filesystem.
C1_NextRootBootable ==
    nextRoot \in Roots => content[nextRoot] = "full"

\* C2 (as claimed): with every step succeeding, every requested reboot
\* performed and the same target handed in again, the path is A, reboot, C,
\* Done: the invocation after a completed state A transition and its reboot
\* is in state C, and a completed state C transition leaves the boot
\* partition at least as long as the target.
C2_PathADone ==
    [][/\ (/\ Invoked
           /\ inv.st = "A" /\ result = "exit2" /\ failedAt = "" /\ boots = 1
           /\ inv'.size = inv.size)
          => inv'.st = "C"
       /\ (/\ Invoked
           /\ inv.st = "C" /\ result = "True" /\ failedAt = ""
           /\ inv'.size = inv.size)
          => inv'.st = "D"]_vars

\* C3 (as claimed): after a state A invocation in which every step
\* succeeded, root-B's start has moved forward by exactly half of (target
\* minus boot length), its end is unchanged, it holds a full copy of the
\* live root, the bootloader boots root-B next, and a reboot is requested.
C3_StateAExactHalf ==
    (Ended /\ inv.st = "A" /\ failedAt = "")
    => /\ 2 * (geom["updt"].start - inv.pre["updt"].start)
            = inv.size * Unit - BootLength(inv.pre)
       /\ geom["updt"].end = inv.pre["updt"].end
       /\ content["updt"] = "full"
       /\ nextRoot = "updt"
       /\ (~inv.tm => result = "exit2")

\* C3 (amended): after a state A invocation in which every step succeeded,
\* root-B's start has moved forward by floor(delta/2) units, where delta is
\* the target minus the boot length truncated to whole units; its end and
\* the other partitions are unchanged; it holds a full copy of the live
\* root; the bootloader boots root-B next; and the invocation exits with
\* the reboot signal, or returns True in test mode.
C3_StateAPost ==
    (Ended /\ inv.st = "A" /\ failedAt = "")
    => /\ geom["updt"].start
            = inv.pre["updt"].start + (EntryDelta \div 2) * Unit
       /\ geom["updt"].end = inv.pre["updt"].end
       /\ geom["root"] = inv.pre["root"] /\ geom["boot"] = inv.pre["boot"]
       /\ content["updt"] = "full"
       /\ nextRoot = "updt"
       /\ result = (IF inv.tm THEN "True" ELSE "exit2")
C3_Witness ==
    Ended /\ inv.st = "A" /\ failedAt = "" /\ result = "exit2"
    /\ EntryDelta = 3 /\ geom["updt"].start = inv.pre["updt"].start + Unit

\* C4 (as claimed): after a successful state C invocation root-A's length
\* has grown by delta (target minus boot length), the boot partition's
\* length equals the target, and the call returns True.
C4_StateCGrows ==
    (pc = "idle" /\ inv.st = "C" /\ result = "True")
    => /\ RootLength(geom) - RootLength(inv.pre)
            = inv.size * Unit - BootLength(inv.pre)
       /\ BootLength(geom) = inv.size * Unit

\* C4 (amended): a state C invocation never requests a reboot; when it
\* returns True, root-A's start has moved forward by delta units and its
\* end by floor(delta/2) units (so root-A is shorter by delta minus
\* floor(delta/2) units), root-B is unchanged, and the boot partition has
\* grown at its end by delta units, delta being the target minus the boot
\* length truncated to whole units: the boot partition is then at least
\* as long as the target, and exactly as long when its length was a whole
\* number of units.
C4_StateCPost ==
    /\ inv.st = "C" => result \in {"none", "True", "False", "raise"}
    /\ (pc = "idle" /\ inv.st = "C" /\ result = "True")
       => /\ geom["root"].start = inv.pre["root"].start + EntryDelta * Unit
          /\ geom["root"].end = inv.pre["root"].end + (EntryDelta \div 2) * Unit
          /\ RootLength(geom)
               = RootLength(inv.pre) - (EntryDelta - EntryDelta \div 2) * Unit
          /\ geom["updt"] = inv.pre["updt"]
          /\ geom["boot"].start = inv.pre["boot"].start
          /\ BootLength(geom) = BootLength(inv.pre) + EntryDelta * Unit
          /\ BootLength(geom) >= inv.size * Unit
          /\ (BootLength(inv.pre) % Unit = 0 => BootLength(geom) = inv.size * Unit)
C4_Witness ==
    pc = "idle" /\ inv.st = "C" /\ result = "True" /\ failedAt = ""
    /\ BootLength(geom) > inv.size * Unit

\* C5: an invocation whose target is at most the boot partition's length
\* returns True at once, whatever the active root and the root lengths,
\* and leaves the partition table, the contents, the mounts, the backup
\* directory and the bootloader configuration as they were.
C5_StateDIdempotent ==
    /\ [](inv.size * Unit <= BootLength(inv.pre) /\ inv.st # "-"
          => pc = "idle" /\ result = "True" /\ geom = inv.pre)
    /\ [][(Invoked /\ inv'.size * Unit <= BootLength(geom))
          => (pc' = "idle" /\ result' = "True" /\ Machine' = Machine)]_vars
C5_Witness ==
    /\ pc = "idle" /\ inv.st = "D" /\ result = "True"
    /\ inv.size * Unit = BootLength(geom)
    /\ activeRoot = "updt" /\ RootLength(geom) # UpdtLength(geom)

\* C6: an invocation made while booted from root-A with root-A and root-B
\* of different lengths and the boot partition below the target returns
\* False at once and changes nothing.
C6_StateEFatal ==
    /\ [](/\ inv.st # "-" /\ inv.size * Unit > BootLength(inv.pre)
          /\ RootLength(inv.pre) # UpdtLength(inv.pre)
          /\ pc # "idle"
          => activeRoot # "root")
    /\ [][(/\ Invoked
           /\ activeRoot = "root"
           /\ RootLength(geom) # UpdtLength(geom)
           /\ inv'.size * Unit > BootLength(geom))
          => (pc' = "idle" /\ result' = "False" /\ Machine' = Machine)]_vars
C6_Witness ==
    /\ pc = "idle" /\ inv.st = "E" /\ result = "False"
    /\ activeRoot = "root" /\ RootLength(geom) # UpdtLength(geom)

\* C7 (as claimed): an invocation made while the mounted root is neither
\* root-A nor root-B returns False and changes nothing, for every target
\* and every boot-partition length.
C7_UnknownRootAlwaysFails ==
    [][(Invoked /\ activeRoot \notin Roots)
       => (pc' = "idle" /\ result' = "False" /\ Machine' = Machine)]_vars

\* C7 (amended): an invocation made while the mounted root is neither
\* root-A nor root-B changes nothing and returns at once: False when the
\* boot partition is shorter than the target, True (state D) when it is
\* not.
C7_UnknownRoot ==
    [][(Invoked /\ activeRoot \notin Roots)
       => /\ pc' = "idle" /\ Machine' = Machine
          /\ result' = (IF inv'.size * Unit > BootLength(geom)
                        THEN "False" ELSE "True")]_vars
C7_Witness ==
    /\ pc = "idle" /\ inv.st = "U" /\ result = "False"
    /\ activeRoot = "other" /\ inv.size * Unit > BootLength(geom)

\* C8 (as claimed): outside test mode an invocation ends with the reboot
\* exit exactly when it ran a state A or state B transition in which no
\* step reported failure.
C8_RebootExit ==
    (pc = "idle" /\ result # "none" /\ ~inv.tm)
    => (result = "exit2" <=> (inv.st \in {"A", "B"} /\ failedAt = ""))

\* C9 (as claimed): in test mode no invocation exits; with every step
\* succeeding it returns True except in state E and with an unknown root;
\* and test-mode invocations alone, without a reboot, step the machine on
\* towards Done: the invocation after a completed test-mode state A
\* transition is in state C or D.
C9_TestModeDrives ==
    /\ [](inv.tm => result # "exit2")
    /\ []((inv.tm /\ pc = "idle" /\ result # "none" /\ failedAt = "")
          => (result = "True" <=> inv.st \notin {"E", "U"}))
    /\ [][(/\ Invoked
           /\ inv.tm /\ inv.st = "A" /\ result = "True" /\ failedAt = ""
           /\ boots = 0 /\ inv'.tm /\ inv'.size = inv.size)
          => inv'.st \in {"C", "D"}]_vars

\* C9 (amended): in test mode no invocation exits; with every step
\* succeeding it returns True except in state E and with an unknown root;
\* a test-mode invocation in state C grows the boot partition to the
\* target without a reboot; but the active root changes only with a
\* reboot, so the invocation that follows a completed test-mode state A
\* transition without one is in state E, or in state A again when
\* floor(delta/2) is 0, and never in state C or D.
C9_TestMode ==
    /\ [](inv.tm => result # "exit2")
    /\ []((inv.tm /\ pc = "idle" /\ result # "none" /\ failedAt = "")
          => (result = "True" <=> inv.st \notin {"E", "U"}))
    /\ []((inv.tm /\ pc = "idle" /\ inv.st = "C" /\ result = "True")
          => BootLength(geom) >= inv.size * Unit)
    /\ [][(/\ Invoked
           /\ inv.tm /\ inv.st = "A" /\ result = "True" /\ failedAt = ""
           /\ boots = 0 /\ inv'.tm /\ inv'.size = inv.size)
          => inv'.st = (IF EntryDelta \div 2 = 0 THEN "A" ELSE "E")]_vars
C9_Witness ==
    /\ inv.tm /\ pc = "idle" /\ inv.st = "E" /\ result = "False" /\ boots = 0
    /\ nextRoot = "updt" /\ content["updt"] = "full"

\* C10: every partition-table edit and every format is aimed at the standby
\* root or at the boot partition, never at the active root; when the table
\* is committed the edited partition is not mounted; and when the unmount
\* before the edit fails, editPartition returns False with the table as it
\* was.
C10_EditTargets ==
    /\ [](/\ pc \in {"ep_umount", "ep_commit", "ep_format"}
             => ep.target # activeRoot
          /\ pc = "ep_commit" => ~mounted[ep.target]
          /\ pc = "B_format" => activeRoot # "root")
    /\ [][(pc = "ep_umount" /\ failedAt' = "ep_umount")
          => (geom' = geom /\ content' = content /\ ret' = FALSE
              /\ pc' = ep.cont)]_vars
    /\ [][geom' # geom => (pc = "ep_commit" /\ ~mounted[ep.target]
                           /\ ep.target # activeRoot)]_vars
C10_Witness ==
    /\ pc = "ep_format" /\ ep.target = "boot" /\ geom # inv.pre
    /\ activeRoot = "updt" /\ ~mounted["boot"]

\* A direct editPartition call has returned to its caller.
EditEnded == pc = "idle" /\ inv.st = "edit" /\ result # "none"

\* C11: whenever editPartition is called with deltaStart = deltaEnd = 0 and
\* returns success, the target has the geometry it had before the call,
\* and, if backupThroughTemp was set, it holds the contents it held before
\* the call.
C11_RoundTrip ==
    (EditEnded /\ result = "True" /\ inv.args.dStart = 0 /\ inv.args.dEnd = 0)
    => /\ geom[inv.args.target] = inv.pre[inv.args.target]
       /\ inv.args.safe
          => content[inv.args.target] = inv.was[inv.args.target]

\* C12: editPartition removes the backup directory only after the copy
\* back into the recreated partition has reported success.
C12_BackupPreserved ==
    [][(pc = "ep_cleanup" /\ backup # "none" /\ backup' = "none")
       => failedAt # "ep_restore"]_vars

C14_AbortOnFirstFailure ==
    [][(\/ /\ pc \in {"A_mkdtemp", "A_mount", "A_copy", "A_umount",
                      "A_bootloader", "B_format", "B_mkdtemp", "B_mount",
                      "B_copy", "B_umount", "B_bootloader"}
           /\ failedAt' = pc
        \/ /\ pc \in {"A_edited", "C_rootEdited", "C_bootEdited"}
           /\ ~ret)
       => (pc' = "idle" /\ result' = "False")]_vars

\* C15: a failure to create a temporary directory or mountpoint, or to
\* mount, in editPartition or in the controller's transitions, comes
\* before any destructive step of the invocation: when such a step
\* reports failure, the partition it is about still has the geometry
\* found on entry (controller) or at the call (editPartition).
C15_AcquireBeforeDestroy ==
    [][/\ (pc \in {"A_mkdtemp", "A_mount", "B_mkdtemp", "B_mount"}
           /\ failedAt' = pc)
          => geom = inv.pre
       /\ (pc \in {"ep_mountpoint", "ep_mount", "ep_backupdir", "ep_remount"}
           /\ failedAt' = pc)
          => geom[ep.target] = inv.pre[ep.target]]_vars

\* C16: the checks of editPartition that can make it return failure (an
\* unsupported filesystem type when formatting is requested, a target that
\* is mounted when it should not be) are made before the table commit: a
\* call rejected by such a check leaves table and data as they were.
C16_ValidateBeforeCommit ==
    (/\ EditEnded /\ result = "False"
     /\ \/ inv.args.format /\ inv.args.fstype \notin {"ext3", "ext4", "fat32"}
        \/ failedAt = "ep_remount" /\ isMounted(inv.args.target))
    => (geom = inv.pre /\ content = inv.was)

\* C17: an invocation in state B in which every step succeeds leaves the
\* whole table unchanged, resin-root freshly formatted and holding a full
\* copy of the running root (resin-updt), the bootloader set to resin-root,
\* and ends asking for a reboot (in test mode: returning True); after that
\* reboot the next invocation with the same target is in state A.
C17_StateB ==
    /\ [](( pc = "idle" /\ inv.st = "B" /\ result # "none" /\ failedAt = "")
          => /\ geom = inv.pre
             /\ content["root"] = "full"
             /\ nextRoot = "root"
             /\ result = (IF inv.tm THEN "True" ELSE "exit2")
             /\ boots >= 1 => activeRoot = "root")
    /\ [][(/\ Invoked /\ inv.st = "B" /\ result # "none" /\ failedAt = ""
           /\ boots >= 1 /\ inv'.size = inv.size)
          => inv'.st = "A"]_vars

\* Transition B went through outside test mode and the system has
\* rebooted into resin-root.
C17_Witness ==
    /\ pc = "idle" /\ inv.st = "B" /\ result = "exit2" /\ failedAt = ""
    /\ boots = 1 /\ activeRoot = "root" /\ content["root"] = "full"

\* C18: along runs of successful invocations and reboots every partition
\* has start <= end, the partitions lie in the order resin-boot,
\* resin-root, resin-updt without overlap, and no editPartition call of
\* the controller asks for a geometry with start > end or one that
\* overlaps a neighbour.
C18_Layout ==
    /\ \A p \in Parts : geom[p].start <= geom[p].end
    /\ geom["boot"].end < geom["root"].start
    /\ geom["root"].end < geom["updt"].start
    /\ (pc = "ep_commit" /\ inv.clean)
       => LET s == geom[ep.target].start + ep.dStart * Unit
              e == geom[ep.target].end + ep.dEnd * Unit
          IN /\ s <= e
             /\ \A q \in Parts \ {ep.target} :
                   e < geom[q].start \/ geom[q].end < s

\* C19: for every delta, after transition A, the reboot and transition C
\* with the same target (so that C finds resin-updt shorter than
\* resin-root by what A took for this delta), resin-root and resin-updt
\* have equal length again.
C19_Reequalised ==
    (/\ pc = "idle" /\ inv.st = "C" /\ result = "True"
     /\ RootLength(inv.pre) - UpdtLength(inv.pre) = (EntryDelta \div 2) * Unit)
    => RootLength(geom) = UpdtLength(geom)

\* C20: starting from roots of equal length, along every run in which
\* each invocation completes without a failure and each reboot asked for
\* takes place and boots the configured root, no invocation finds itself
\* in state E.
C20_NoStateE == inv.clean => inv.st # "E"

\* A normal run that went through A, the reboot and C and is now asked
\* to grow the boot partition again.
C20_Witness ==
    /\ inv.clean /\ inv.st = "C" /\ pc = "C_editRoot"
    /\ activeRoot = "updt" /\ nextRoot = "updt"
    /\ RootLength(geom) < UpdtLength(geom)
====
